---- MODULE Spec2Model ----
(***************************************************************************)
(* Model of migration_time.py: calculate_migration_time() reads its        *)
(* configuration from the environment, lists the ECR repositories, scans   *)
(* the images of each repository, classifies every image pushed within the *)
(* configured date range as MIGRATE or KEEP, and writes a report with the  *)
(* totals, a transfer-time estimate and the ten largest migrations.        *)
(*                                                                         *)
(* Time is counted in ticks; a calendar day has TicksPerDay ticks, and a   *)
(* naive datetime is the number of ticks since day 0, 00:00:00.            *)
(***************************************************************************)
EXTENDS Integers, Sequences, FiniteSets, TLC

\* ------------------------------------------------------------------ bounds
TicksPerDay == 2
MaxDay == 2
MaxRepos == 2
MaxEligible == 11

\* ------------------------------------------------------- program constants
RecencyDays == 365
TopN == 10

None == 0 - 1
Untagged == "<untagged>"

VARIABLES
    environ,                \* os.getenv values: credentials, repository filter, dates
    ecr,                    \* the registry behind the boto3 client
    now,                    \* datetime.now()
    pc,                     \* position in calculate_migration_time
    outcome,                \* how the run ended
    start_date, end_date, one_year_ago,
    repositories_to_scan,
    next_repo,              \* position of the for loop over repositories_to_scan
    total_size_bytes, total_images_to_migrate, total_images_to_keep,
    repositories_processed, repositories_with_migrations,
    migration_details, kept_details,
    report,                 \* the lines written with write_output, in order
    api_calls,              \* the requests made to ECR, in order
    time_seconds, time_minutes, time_hours, time_days,
    sorted_migrations

vars == <<environ, ecr, now, pc, outcome, start_date, end_date, one_year_ago,
          repositories_to_scan, next_repo, total_size_bytes,
          total_images_to_migrate, total_images_to_keep, repositories_processed,
          repositories_with_migrations, migration_details, kept_details, report,
          api_calls, time_seconds, time_minutes, time_hours, time_days,
          sorted_migrations>>

\* ------------------------------------------------------------- arithmetic
\* An exact rational num / (2^exp2 * odd), odd > 0 and odd; the float
\* divisions of the estimator are divisions of such rationals.

\* F(x) with x evaluated once, before F is applied.
Strict(F(_), x) == CHOOSE y \in {F(v) : v \in {x}} : TRUE

Abs(n) == IF n < 0 THEN 0 - n ELSE n

RECURSIVE Gcd(_, _)
GcdOf(p) == IF p[2] = 0 THEN p[1] ELSE Gcd(p[2], p[1] % p[2])
Gcd(a, b) == Strict(GcdOf, <<a, b>>)

RECURSIVE StripTwos(_)
StripTwosOf(v) ==
    IF v.num % 2 = 0
    THEN StripTwos([num |-> v.num \div 2, exp2 |-> v.exp2 - 1, odd |-> v.odd])
    ELSE v
StripTwos(r) == Strict(StripTwosOf, r)

ReduceOf(s) ==
    LET g == Gcd(Abs(s.num), s.odd)
    IN [num |-> s.num \div g, exp2 |-> s.exp2, odd |-> s.odd \div g]

RatNormOf(v) ==
    IF v.num = 0
    THEN [num |-> 0, exp2 |-> 0, odd |-> 1]
    ELSE Strict(ReduceOf, StripTwos(v))

\* The rational in lowest terms.
RatNorm(r) == Strict(RatNormOf, r)

RatOfInt(n) == RatNorm([num |-> n, exp2 |-> 0, odd |-> 1])

\* r / (2^e2 * m), m odd
RatDiv(r, e2, m) ==
    Strict(LAMBDA v : RatNorm([num |-> v.num, exp2 |-> v.exp2 + e2, odd |-> v.odd * m]), r)

\* r * n for an integer n > 0, the common factor of n and the denominator
\* cancelled first
RatTimesOf(v, n) ==
    LET g == Gcd(n, v.odd)
    IN RatNorm([num |-> v.num * (n \div g), exp2 |-> v.exp2, odd |-> v.odd \div g])
RatTimes(r, n) == Strict(LAMBDA v : RatTimesOf(v, n), r)

RatPositive(r) == r.num > 0
RatZero == RatOfInt(0)

\* r / k for an integer k > 0
RECURSIVE RatDivInt(_, _)
RatDivInt(r, k) ==
    IF k % 2 = 0 THEN RatDivInt(RatDiv(r, 1, 1), k \div 2) ELSE RatDiv(r, 0, k)

RECURSIVE Halve(_, _)
Halve(n, e) == IF e <= 0 THEN n ELSE Halve(n \div 2, e - 1)

RECURSIVE Double(_, _)
Double(n, e) == IF e <= 0 THEN n ELSE Double(n * 2, e - 1)

\* floor(r)
RatFloor(r) ==
    IF r.exp2 >= 0 THEN Halve(r.num, r.exp2) \div r.odd
    ELSE Double(r.num, 0 - r.exp2) \div r.odd

Min(a, b) == IF a < b THEN a ELSE b

\* ------------------------------------------------------------ conversions
\* datetime.strptime(s, '%Y-%m-%d'): midnight of the day, or ValueError /
\* TypeError for a malformed or missing string.
strptime(s) ==
    IF s.fmt = "ok"
    THEN [ok |-> TRUE, value |-> s.day * TicksPerDay]
    ELSE [ok |-> FALSE, value |-> None]

\* datetime.strftime('%Y-%m-%d'): the calendar day of an instant
strftime(t) == t \div TicksPerDay

timedelta(days) == days * TicksPerDay

\* (a - b).days
DaysBetween(a, b) == (a - b) \div TicksPerDay

\* ----------------------------------------------------------- image policy
\* start_date <= push_date.replace(tzinfo=None) <= end_date
InDateRange(push_date) == start_date <= push_date /\ push_date <= end_date

\* image.get('imageTags', ['<untagged>']); tags[0] if tags else '<untagged>'
TagName(image) ==
    LET tags == IF "imageTags" \in DOMAIN image THEN image.imageTags ELSE <<Untagged>>
    IN IF tags # <<>> THEN tags[1] ELSE Untagged

\* image.get('lastRecordedPullTime')
LastPulled(image) ==
    IF "lastRecordedPullTime" \in DOMAIN image THEN image.lastRecordedPullTime ELSE None

\* Decision with the cutoff itself counted as stale (<= for <).
DecisionCutoffStale(image) ==
    LET last_pulled == LastPulled(image)
    IN IF last_pulled = None
       THEN [should_migrate |-> TRUE,
             status_reason |-> [text |-> "Never pulled", days |-> None]]
       ELSE IF last_pulled <= one_year_ago
       THEN [should_migrate |-> TRUE,
             status_reason |-> [text |-> "Last pulled", days |-> DaysBetween(now, last_pulled)]]
       ELSE [should_migrate |-> FALSE,
             status_reason |-> [text |-> "Pulled (recent)", days |-> DaysBetween(now, last_pulled)]]

\* The decision for one image: should_migrate and status_reason.
Decision(image) ==
    LET last_pulled == LastPulled(image)
    IN IF last_pulled = None
       THEN [should_migrate |-> TRUE,
             status_reason |-> [text |-> "Never pulled", days |-> None]]
       ELSE IF last_pulled < one_year_ago
       THEN [should_migrate |-> TRUE,
             status_reason |-> [text |-> "Last pulled", days |-> DaysBetween(now, last_pulled)]]
       ELSE [should_migrate |-> FALSE,
             status_reason |-> [text |-> "Pulled (recent)", days |-> DaysBetween(now, last_pulled)]]

Detail(repo_name, image, status_reason) ==
    [repo |-> repo_name, tag |-> TagName(image), size |-> image.imageSizeInBytes,
     push_date |-> strftime(image.imagePushedAt), reason |-> status_reason]

\* EvaluateImage with the kept total assigned from the repository's count
\* (= for +=).
EvaluateImageKeepAssigned(st, repo_name, image) ==
    LET d == Decision(image)
        detail == Detail(repo_name, image, d.status_reason)
    IN IF d.should_migrate
       THEN [st EXCEPT
               !.repo_migrate_count = @ + 1,
               !.repo_migrate_size = @ + image.imageSizeInBytes,
               !.total_images_to_migrate = @ + 1,
               !.total_size_bytes = @ + image.imageSizeInBytes,
               !.report = Append(@, [kind |-> "MIGRATE", detail |-> detail]),
               !.migration_details = Append(@, detail)]
       ELSE [st EXCEPT
               !.repo_keep_count = @ + 1,
               !.total_images_to_keep = st.repo_keep_count + 1,
               !.report = Append(@, [kind |-> "KEEP ECR", detail |-> detail]),
               !.kept_details = Append(@, detail)]

\* One iteration of the loop over images_in_date_range.
EvaluateImage(st, repo_name, image) ==
    LET d == Decision(image)
        detail == Detail(repo_name, image, d.status_reason)
    IN IF d.should_migrate
       THEN [st EXCEPT
               !.repo_migrate_count = @ + 1,
               !.repo_migrate_size = @ + image.imageSizeInBytes,
               !.total_images_to_migrate = @ + 1,
               !.total_size_bytes = @ + image.imageSizeInBytes,
               !.report = Append(@, [kind |-> "MIGRATE", detail |-> detail]),
               !.migration_details = Append(@, detail)]
       ELSE [st EXCEPT
               !.repo_keep_count = @ + 1,
               !.total_images_to_keep = @ + 1,
               !.report = Append(@, [kind |-> "KEEP ECR", detail |-> detail]),
               !.kept_details = Append(@, detail)]

RECURSIVE EvaluateImages(_, _, _)
EvaluateImages(st, repo_name, images) ==
    IF images = <<>> THEN st
    ELSE EvaluateImages(EvaluateImage(st, repo_name, Head(images)), repo_name, Tail(images))

\* The loop over image_pages: page k is requested when the loop reaches it;
\* a failing request raises with the earlier pages already collected.
RECURSIVE CollectImages(_, _, _)
CollectImages(repository, k, images_in_date_range) ==
    IF k > Len(repository.pages)
    THEN [exc |-> "none", images |-> images_in_date_range]
    ELSE IF repository.failAt = k
    THEN [exc |-> "ClientError", images |-> images_in_date_range]
    ELSE CollectImages(repository, k + 1,
            images_in_date_range \o
            SelectSeq(repository.pages[k], LAMBDA image : InDateRange(image.imagePushedAt)))

\* TryRepository evaluating each page as it arrives instead of collecting
\* all pages first.
RECURSIVE StreamPages(_, _, _)
StreamPages(st, repository, k) ==
    IF k > Len(repository.pages) THEN st
    ELSE IF repository.failAt = k THEN [st EXCEPT !.exc = "ClientError"]
    ELSE StreamPages(
            EvaluateImages(st, repository.repositoryName,
                SelectSeq(repository.pages[k], LAMBDA image : InDateRange(image.imagePushedAt))),
            repository, k + 1)

TryRepositoryStreaming(st, repository) == StreamPages(st, repository, 1)

\* The body of the inner try: collect, then evaluate, then summarise.
TryRepository(st, repository) ==
    LET repo_name == repository.repositoryName
        listing == CollectImages(repository, 1, <<>>)
    IN IF listing.exc # "none"
       THEN [st EXCEPT !.exc = listing.exc]
       ELSE IF Len(listing.images) = 0
       THEN [st EXCEPT !.report = Append(@, [kind |-> "INFO no images in range", repo |-> repo_name])]
       ELSE LET st1 == [st EXCEPT !.report = Append(@, [kind |-> "images in date range",
                                                        repo |-> repo_name,
                                                        count |-> Len(listing.images)])]
                st2 == EvaluateImages(st1, repo_name, listing.images)
            IN IF st2.repo_migrate_count > 0
               THEN [st2 EXCEPT
                       !.repositories_with_migrations = @ + 1,
                       !.report = Append(@, [kind |-> "repository summary",
                                             repo |-> repo_name,
                                             migrate |-> st2.repo_migrate_count,
                                             size |-> st2.repo_migrate_size,
                                             keep |-> st2.repo_keep_count])]
               ELSE [st2 EXCEPT
                       !.report = Append(@, [kind |-> "repository summary",
                                             repo |-> repo_name,
                                             migrate |-> 0,
                                             size |-> 0,
                                             keep |-> st2.repo_keep_count])]

\* The inner handler narrowed to one class of error.
InnerExceptCatchesKeyErrorOnly(exc) == exc = "KeyError"

\* except Exception as e: every error raised by the ECR client is caught.
InnerExceptCatches(exc) == exc \in {"ClientError", "KeyError"}

\* One iteration of the loop over repositories_to_scan.
ProcessRepo(st, repository) ==
    LET st0 == [st EXCEPT
                  !.repositories_processed = @ + 1,
                  !.repo_migrate_count = 0,
                  !.repo_keep_count = 0,
                  !.repo_migrate_size = 0,
                  !.exc = "none",
                  !.report = Append(@, [kind |-> "REPOSITORY", repo |-> repository.repositoryName])]
        st1 == TryRepository(st0, repository)
    IN IF st1.exc = "none"
       THEN st1
       ELSE IF InnerExceptCatches(st1.exc)
       THEN [st1 EXCEPT
               !.exc = "none",
               !.report = Append(@, [kind |-> "ERROR failed to process repository",
                                     repo |-> repository.repositoryName])]
       ELSE st1

\* ---------------------------------------------------------------- top ten
\* InsertBySize that puts an element before the equal ones met earlier.
RECURSIVE InsertBySizeUnstable(_, _)
InsertBySizeUnstable(sorted, x) ==
    IF sorted = <<>> THEN <<x>>
    ELSE IF Head(sorted).size > x.size
    THEN <<Head(sorted)>> \o InsertBySizeUnstable(Tail(sorted), x)
    ELSE <<x>> \o sorted

\* sorted(..., key=size, reverse=True) is stable: an element goes after every
\* element at least as large that was met before it.
RECURSIVE InsertBySize(_, _)
InsertBySize(sorted, x) ==
    IF sorted = <<>> THEN <<x>>
    ELSE IF Head(sorted).size >= x.size
    THEN <<Head(sorted)>> \o InsertBySize(Tail(sorted), x)
    ELSE <<x>> \o sorted

RECURSIVE SortedBySizeDesc(_)
SortedBySizeDesc(details) ==
    IF details = <<>> THEN <<>>
    ELSE InsertBySize(SortedBySizeDesc(SubSeq(details, 1, Len(details) - 1)),
                      details[Len(details)])

\* details[:n]
Slice(details, n) == SubSeq(details, 1, Min(n, Len(details)))

\* sorted(migration_details, key=lambda x: x['size'], reverse=True)[:10]
TopMigrations(details) == Slice(SortedBySizeDesc(details), TopN)

\* -------------------------------------------------------------- estimator
SpeedHundredths == 133

\* bytes / (1024 * 1024), 1024 * 1024 = 2^20
TotalSizeMb(bytes) == RatDiv(RatOfInt(bytes), 20, 1)

\* total_size_mb / speed_mb_per_sec if total_size_mb > 0 else 0
TimeSeconds(bytes) ==
    LET total_size_mb == TotalSizeMb(bytes)
    IN IF RatPositive(total_size_mb)
       THEN RatDivInt(RatTimes(total_size_mb, 100), SpeedHundredths)
       ELSE RatZero

\* TimeMinutes multiplying where it should divide.
TimeMinutesTimes(seconds) == RatTimes(seconds, 60)

TimeMinutes(seconds) == RatDivInt(seconds, 60)
TimeHours(minutes) == RatDivInt(minutes, 60)
TimeDays(hours) == RatDivInt(hours, 24)

\* ---------------------------------------------------------------- actions
Accumulators ==
    [total_size_bytes |-> total_size_bytes,
     total_images_to_migrate |-> total_images_to_migrate,
     total_images_to_keep |-> total_images_to_keep,
     repositories_processed |-> repositories_processed,
     repositories_with_migrations |-> repositories_with_migrations,
     migration_details |-> migration_details,
     kept_details |-> kept_details,
     report |-> report,
     repo_migrate_count |-> 0, repo_keep_count |-> 0, repo_migrate_size |-> 0,
     exc |-> "none"]

\* Lines 34-102: credentials, dates, cutoff, report header, zeroed totals.
ValidateInputs ==
    /\ pc = "validate"
    /\ LET start == strptime(environ.START_DATE)
           end == strptime(environ.END_DATE)
       IN IF ~environ.credentials
          THEN /\ pc' = "done"
               /\ outcome' = "missing credentials"
               /\ UNCHANGED <<start_date, end_date, one_year_ago, report>>
          ELSE IF ~start.ok \/ ~end.ok
          THEN /\ pc' = "done"
               /\ outcome' = "invalid date format"
               /\ UNCHANGED <<start_date, end_date, one_year_ago, report>>
          ELSE /\ pc' = "list"
               /\ outcome' = "running"
               /\ start_date' = start.value
               /\ end_date' = end.value
               /\ one_year_ago' = now - timedelta(RecencyDays)
               /\ report' = <<[kind |-> "header",
                               scope |-> environ.ECR_REPOSITORY_NAME,
                               start |-> environ.START_DATE,
                               end |-> environ.END_DATE,
                               not_pulled_since |-> strftime(now - timedelta(RecencyDays))]>>
    /\ total_size_bytes' = 0
    /\ total_images_to_migrate' = 0
    /\ total_images_to_keep' = 0
    /\ repositories_processed' = 0
    /\ repositories_with_migrations' = 0
    /\ migration_details' = <<>>
    /\ kept_details' = <<>>
    /\ UNCHANGED <<environ, ecr, now, repositories_to_scan, next_repo, api_calls,
                   time_seconds, time_minutes, time_hours, time_days, sorted_migrations>>

\* Lines 104-124: the repositories to scan, one named repository or all.
GetRepositories ==
    /\ pc = "list"
    /\ LET repository_name == environ.ECR_REPOSITORY_NAME
           named == SelectSeq(ecr.repositories,
                              LAMBDA r : r.repositoryName = repository_name)
       IN /\ api_calls' = Append(api_calls, [call |-> "describe_repositories",
                                             name |-> repository_name])
          /\ IF ecr.describe_fails
             THEN /\ pc' = "done"
                  /\ outcome' = "failed to access ECR"
                  /\ report' = Append(report, [kind |-> "ERROR failed to access ECR"])
                  /\ UNCHANGED repositories_to_scan
             ELSE IF repository_name # "" /\ named = <<>>
             THEN /\ pc' = "done"
                  /\ outcome' = "repository not found"
                  /\ report' = Append(report, [kind |-> "ERROR repository not found",
                                               repo |-> repository_name])
                  /\ UNCHANGED repositories_to_scan
             ELSE /\ pc' = "scan"
                  /\ outcome' = "running"
                  /\ repositories_to_scan' =
                        IF repository_name # "" THEN named ELSE ecr.repositories
                  /\ UNCHANGED report
    /\ next_repo' = 1
    /\ UNCHANGED <<environ, ecr, now, start_date, end_date, one_year_ago,
                   total_size_bytes, total_images_to_migrate, total_images_to_keep,
                   repositories_processed, repositories_with_migrations,
                   migration_details, kept_details,
                   time_seconds, time_minutes, time_hours, time_days, sorted_migrations>>

\* Lines 126-233: one repository of the loop; an error that the inner
\* handler does not catch ends the run in the outer handler (lines 304-306).
ProcessRepository ==
    /\ pc = "scan"
    /\ next_repo <= Len(repositories_to_scan)
    /\ LET repository == repositories_to_scan[next_repo]
           st == ProcessRepo(Accumulators, repository)
       IN /\ api_calls' = Append(api_calls, [call |-> "describe_images",
                                             name |-> repository.repositoryName])
          /\ total_size_bytes' = st.total_size_bytes
          /\ total_images_to_migrate' = st.total_images_to_migrate
          /\ total_images_to_keep' = st.total_images_to_keep
          /\ repositories_processed' = st.repositories_processed
          /\ repositories_with_migrations' = st.repositories_with_migrations
          /\ migration_details' = st.migration_details
          /\ kept_details' = st.kept_details
          /\ IF st.exc = "none"
             THEN /\ pc' = "scan"
                  /\ outcome' = "running"
                  /\ report' = st.report
             ELSE /\ pc' = "done"
                  /\ outcome' = "failed to access ECR"
                  /\ report' = Append(st.report, [kind |-> "ERROR failed to access ECR"])
    /\ next_repo' = next_repo + 1
    /\ UNCHANGED <<environ, ecr, now, start_date, end_date, one_year_ago,
                   repositories_to_scan,
                   time_seconds, time_minutes, time_hours, time_days, sorted_migrations>>

\* The lines of the MIGRATION SUMMARY section (lines 243-279).
SummaryLines ==
    [kind |-> "MIGRATION SUMMARY",
     total_scanned |-> repositories_processed,
     with_images_to_migrate |-> repositories_with_migrations,
     images_to_migrate |-> total_images_to_migrate,
     images_to_keep |-> total_images_to_keep,
     total_images_evaluated |-> total_images_to_migrate + total_images_to_keep,
     total_data_to_migrate |-> total_size_bytes]

EstimateLines(seconds, minutes, hours, days) ==
    IF total_images_to_migrate > 0
    THEN [kind |-> "Estimated Migration Time",
          seconds |-> seconds, minutes |-> minutes, hours |-> hours,
          days |-> IF RatFloor(hours) >= 24 THEN days ELSE RatZero]
    ELSE [kind |-> "No images qualify for migration",
          seconds |-> RatZero, minutes |-> RatZero, hours |-> RatZero, days |-> RatZero]

\* Lines 235-302: estimate, summary, top ten.
FinalSummary ==
    /\ pc = "scan"
    /\ next_repo > Len(repositories_to_scan)
    /\ \E seconds \in {TimeSeconds(total_size_bytes)} :
       \E minutes \in {TimeMinutes(seconds)} :
       \E hours \in {TimeHours(minutes)} :
       \E days \in {TimeDays(hours)} :
       \E top \in {IF Len(migration_details) > 0
                   THEN TopMigrations(migration_details) ELSE <<>>} :
          /\ time_seconds' = seconds
          /\ time_minutes' = minutes
          /\ time_hours' = hours
          /\ time_days' = days
          /\ sorted_migrations' = top
          /\ report' = report \o <<SummaryLines, EstimateLines(seconds, minutes, hours, days)>>
                              \o [i \in 1..Len(top) |-> [kind |-> "TOP", rank |-> i, detail |-> top[i]]]
    /\ pc' = "done"
    /\ outcome' = "summary"
    /\ UNCHANGED <<environ, ecr, now, start_date, end_date, one_year_ago,
                   repositories_to_scan, next_repo,
                   total_size_bytes, total_images_to_migrate, total_images_to_keep,
                   repositories_processed, repositories_with_migrations,
                   migration_details, kept_details, api_calls>>

Next == ValidateInputs \/ GetRepositories \/ ProcessRepository \/ FinalSummary

\* ----------------------------------------------------------- initial states
DateString(d) == [fmt |-> "ok", day |-> d]
Malformed == [fmt |-> "malformed", day |-> 0]
Unset == [fmt |-> "unset", day |-> 0]

RepoNames == <<"r1", "r2", "r3", "r4">>
TagNames == <<"v1", "v2", "v3", "v4", "v5", "v6", "v7", "v8",
              "v9", "v10", "v11", "v12", "v13", "v14">>

SeqsUpTo(S, n) == UNION {[1..k -> S] : k \in 0..n}

\* The registry that returns the given repositories, named in listing order.
Registry(contents, describe_fails) ==
    [repositories |-> [i \in 1..Len(contents) |->
                         [repositoryName |-> RepoNames[i],
                          pages |-> contents[i].pages,
                          failAt |-> contents[i].failAt]],
     describe_fails |-> describe_fails]

\* The state before calculate_migration_time runs.
Fresh ==
    /\ pc = "validate"
    /\ outcome = "running"
    /\ start_date = None /\ end_date = None /\ one_year_ago = None
    /\ repositories_to_scan = <<>>
    /\ next_repo = 1
    /\ total_size_bytes = 0
    /\ total_images_to_migrate = 0
    /\ total_images_to_keep = 0
    /\ repositories_processed = 0
    /\ repositories_with_migrations = 0
    /\ migration_details = <<>>
    /\ kept_details = <<>>
    /\ report = <<>>
    /\ api_calls = <<>>
    /\ time_seconds = RatZero /\ time_minutes = RatZero
    /\ time_hours = RatZero /\ time_days = RatZero
    /\ sorted_migrations = <<>>

\* Whole runs: every kind of configuration, registries of a few repositories
\* some of which fail while their images are listed.
RunNow == timedelta(RecencyDays) + TicksPerDay + 1
RunCutoff == RunNow - timedelta(RecencyDays)

ImageA == [imageSizeInBytes |-> 2, imageTags |-> <<"v1">>,
           imagePushedAt |-> TicksPerDay]
ImageB == [imageSizeInBytes |-> 1, imageTags |-> <<"v2", "latest">>,
           imagePushedAt |-> TicksPerDay, lastRecordedPullTime |-> RunCutoff - 1]
ImageC == [imageSizeInBytes |-> 3, imageTags |-> <<>>,
           imagePushedAt |-> 0, lastRecordedPullTime |-> RunCutoff]
ImageD == [imageSizeInBytes |-> 2,
           imagePushedAt |-> TicksPerDay + 1]
ImageE == [imageSizeInBytes |-> 1, imageTags |-> <<"v3">>,
           imagePushedAt |-> TicksPerDay, lastRecordedPullTime |-> RunCutoff + 1]

RunContents ==
    { [pages |-> << <<>> >>, failAt |-> 0],
      [pages |-> << <<ImageA>> >>, failAt |-> 0],
      [pages |-> << <<ImageB, ImageC>> >>, failAt |-> 0],
      [pages |-> << <<ImageA>>, <<ImageB>> >>, failAt |-> 2],
      [pages |-> << <<ImageC>>, <<ImageD>> >>, failAt |-> 0],
      [pages |-> << <<ImageA, ImageC>> >>, failAt |-> 1],
      [pages |-> << <<ImageC, ImageE>> >>, failAt |-> 0],
      [pages |-> << <<ImageC, ImageB>>, <<ImageD, ImageA>> >>, failAt |-> 0] }

RunEnvirons ==
    { [credentials |-> c, ECR_REPOSITORY_NAME |-> n, START_DATE |-> d[1], END_DATE |-> d[2]] :
        c \in {TRUE}, n \in {"", "r2"},
        d \in { <<DateString(0), DateString(1)>>, <<DateString(1), DateString(1)>>,
                <<DateString(1), DateString(0)>>, <<Malformed, DateString(1)>>,
                <<DateString(0), Unset>> } }
    \cup
    { [credentials |-> FALSE, ECR_REPOSITORY_NAME |-> "",
       START_DATE |-> DateString(0), END_DATE |-> DateString(1)] }

Init ==
    /\ environ \in RunEnvirons
    /\ ecr \in {Registry(c, f) : c \in SeqsUpTo(RunContents, MaxRepos), f \in BOOLEAN}
    /\ now = RunNow
    /\ Fresh

Spec == Init /\ [][Next]_vars

\* The run is sequential code: a step that can be taken is taken.
LiveSpec == Init /\ [][Next]_vars /\ WF_vars(Next)

\* The policy on single images: every valid pair of dates, every push and
\* pull instant of the modelled days, cutoffs on and off a day boundary.
Instants == 0..(timedelta(MaxDay + 1) - 1)

PolicyImages ==
    { [imageSizeInBytes |-> 1, imageTags |-> <<"v1">>, imagePushedAt |-> p] : p \in Instants }
    \cup
    { [imageSizeInBytes |-> 1, imageTags |-> <<"v1">>, imagePushedAt |-> p,
       lastRecordedPullTime |-> l] : p \in Instants, l \in Instants }

InitPolicy ==
    /\ environ \in { [credentials |-> TRUE, ECR_REPOSITORY_NAME |-> "",
                      START_DATE |-> DateString(s), END_DATE |-> DateString(e)] :
                        s \in 0..MaxDay, e \in 0..MaxDay }
    /\ ecr \in { Registry(<<[pages |-> << <<i>> >>, failAt |-> 0]>>, FALSE) : i \in PolicyImages }
    /\ now \in { timedelta(RecencyDays) + c : c \in {1, TicksPerDay} }
    /\ Fresh

PolicySpec == InitPolicy /\ [][Next]_vars

\* Many eligible images, more than the top ten holds.
TopImages(sizes) ==
    [i \in 1..Len(sizes) |->
        [imageSizeInBytes |-> sizes[i], imageTags |-> <<TagNames[i]>>,
         imagePushedAt |-> TicksPerDay]]

InitTop ==
    /\ environ = [credentials |-> TRUE, ECR_REPOSITORY_NAME |-> "",
                  START_DATE |-> DateString(0), END_DATE |-> DateString(1)]
    /\ ecr \in { Registry(<<[pages |-> <<TopImages(sizes)>>, failAt |-> 0]>>, FALSE) :
                    sizes \in SeqsUpTo({1, 2}, MaxEligible) }
    /\ now = RunNow
    /\ Fresh

TopSpec == InitTop /\ [][Next]_vars

\* Totals of many magnitudes for the estimator, 798 MiB among them.
MiB == 1024 * 1024

EstimateSizes ==
    SeqsUpTo({0, 1, 3, MiB, 5 * MiB}, 2) \cup {<<798 * MiB>>, <<MiB - 1, 1>>}

InitEstimate ==
    /\ environ = [credentials |-> TRUE, ECR_REPOSITORY_NAME |-> "",
                  START_DATE |-> DateString(0), END_DATE |-> DateString(1)]
    /\ ecr \in { Registry(<<[pages |-> <<TopImages(sizes)>>, failAt |-> 0]>>, FALSE) :
                    sizes \in EstimateSizes }
    /\ now = RunNow
    /\ Fresh

EstimateSpec == InitEstimate /\ [][Next]_vars

\* ------------------------------------------------------------ properties
\* The configured calendar days, when both dates are well formed.
DatesWellFormed == environ.START_DATE.fmt = "ok" /\ environ.END_DATE.fmt = "ok"
StartDay == environ.START_DATE.day
EndDay == environ.END_DATE.day

\* The image is pushed on one of the calendar days startDate..endDate.
PushedWithinDays(image) ==
    StartDay <= strftime(image.imagePushedAt) /\ strftime(image.imagePushedAt) <= EndDay

\* The image is pushed between the two instants the dates parse to.
PushedWithinParsed(image) ==
    /\ StartDay * TicksPerDay <= image.imagePushedAt
    /\ image.imagePushedAt <= EndDay * TicksPerDay

NeverPulled(image) == "lastRecordedPullTime" \notin DOMAIN image
Cutoff == now - RecencyDays * TicksPerDay
StalePull(image) == ~NeverPulled(image) /\ image.lastRecordedPullTime < Cutoff
RecentPull(image) == ~NeverPulled(image) /\ image.lastRecordedPullTime >= Cutoff

\* The listing of the repository's images raises.
ListingFails(repository) == repository.failAt \in 1..Len(repository.pages)

\* The single image of a registry of PolicySpec.
TheImage == ecr.repositories[1].pages[1][1]

\* C1: an image is counted as eligible if and only if it was pushed within
\* [startDate, endDate] and its last pull is absent or strictly older than
\* now - 365 days.
C1_EligibleIffInRangeAndStale ==
    outcome = "summary" =>
        (total_images_to_migrate = 1 <=>
            (PushedWithinDays(TheImage) /\ (NeverPulled(TheImage) \/ StalePull(TheImage))))

\* The same equivalence with the range taken between the instants the two
\* dates parse to (00:00:00 of startDate and 00:00:00 of endDate).
EligibleIffInParsedRangeAndStale ==
    outcome = "summary" =>
        /\ total_images_to_migrate = 1 <=>
            (PushedWithinParsed(TheImage) /\ (NeverPulled(TheImage) \/ StalePull(TheImage)))
        /\ total_images_to_keep = 1 <=>
            (PushedWithinParsed(TheImage) /\ RecentPull(TheImage))

\* C2: an image pushed on the calendar day endDate, at any time of that day,
\* is treated as pushed within the range and so is evaluated.
C2_EndDateInclusiveToEndOfDay ==
    (outcome = "summary" /\ StartDay <= EndDay
        /\ strftime(TheImage.imagePushedAt) = EndDay)
    => total_images_to_migrate + total_images_to_keep = 1

\* C3: a start date later than the end date, or a malformed date, ends the
\* run before any repository is listed, any image classified or any summary
\* written.
C3_BadDatesRejectedBeforeEvaluation ==
    (environ.credentials /\ (~DatesWellFormed \/ StartDay > EndDay))
    => /\ api_calls = <<>>
       /\ total_images_to_migrate = 0 /\ total_images_to_keep = 0
       /\ outcome # "summary"
       /\ \A i \in 1..Len(report) : report[i].kind = "header"

\* The repositories of the scan whose processing raised an error.
FailedRepositories ==
    {repositories_to_scan[i].repositoryName : i \in
        {j \in 1..Len(repositories_to_scan) : ListingFails(repositories_to_scan[j])}}

\* C5: the final report carries the number of repositories attempted, the
\* repositories that failed, and an indicator that reads partial failure
\* exactly when a repository failed.
C5_ReportListsFailuresAndIndicator ==
    outcome = "summary" =>
        \E i \in 1..Len(report) :
            LET line == report[i]
            IN /\ line.kind = "MIGRATION SUMMARY"
               /\ line.total_scanned = Len(repositories_to_scan)
               /\ "failed" \in DOMAIN line
               /\ line.failed = FailedRepositories
               /\ "indicator" \in DOMAIN line
               /\ (line.indicator = "partial failure") <=> (FailedRepositories # {})

\* C4: a repository whose images cannot be listed does not end the run:
\* once the scan has started, the run reaches the final summary with every
\* repository of the scan attempted.
C4_RepositoryFailureNeverAborts ==
    (pc = "scan") ~>
        (pc = "done" /\ outcome = "summary"
            /\ repositories_processed = Len(repositories_to_scan))

\* A finished run in which a repository failed and a later one was scanned.
C4_Witness ==
    /\ outcome = "summary"
    /\ repositories_processed = Len(repositories_to_scan)
    /\ \E i \in 1..Len(repositories_to_scan) :
          /\ i < Len(repositories_to_scan)
          /\ ListingFails(repositories_to_scan[i])
          /\ \E k \in 1..Len(report) :
                /\ report[k].kind = "ERROR failed to process repository"
                /\ report[k].repo = repositories_to_scan[i].repositoryName
          /\ \E k \in 1..Len(report) :
                /\ report[k].kind = "REPOSITORY"
                /\ report[k].repo = repositories_to_scan[i + 1].repositoryName

\* The images of a repository, over all its pages.
RECURSIVE Flatten(_)
Flatten(pages) == IF pages = <<>> THEN <<>> ELSE Head(pages) \o Flatten(Tail(pages))

\* The images of the first n repositories of the scan, those whose listing
\* raised left out.
RECURSIVE ListedImages(_)
ListedImages(n) ==
    IF n = 0 THEN <<>>
    ELSE ListedImages(n - 1) \o
         (IF ListingFails(repositories_to_scan[n]) THEN <<>>
          ELSE Flatten(repositories_to_scan[n].pages))

CountListed(n, P(_)) == Len(SelectSeq(ListedImages(n), P))

Scanning == pc = "scan" \/ outcome = "summary"
ScannedSoFar == next_repo - 1

RECURSIVE CountReason(_, _)
CountReason(details, text) ==
    IF details = <<>> THEN 0
    ELSE (IF Head(details).reason.text = text THEN 1 ELSE 0) + CountReason(Tail(details), text)

ReasonsConsistent ==
    /\ \A i \in 1..Len(migration_details) :
          migration_details[i].reason.text \in {"Never pulled", "Last pulled"}
    /\ \A i \in 1..Len(kept_details) :
          kept_details[i].reason.text = "Pulled (recent)"
    /\ CountReason(migration_details, "Never pulled") =
          CountListed(ScannedSoFar, LAMBDA image : PushedWithinParsed(image) /\ NeverPulled(image))
    /\ CountReason(migration_details, "Last pulled") =
          CountListed(ScannedSoFar, LAMBDA image : PushedWithinParsed(image) /\ StalePull(image))

\* No image scanned so far was pushed on endDate after 00:00:00, and the
\* dates are in order: the date filter and the calendar days agree.
FilterAgreesWithDays ==
    /\ StartDay <= EndDay
    /\ \A i \in 1..Len(ListedImages(ScannedSoFar)) :
          PushedWithinDays(ListedImages(ScannedSoFar)[i])
              <=> PushedWithinParsed(ListedImages(ScannedSoFar)[i])

Rank(details, i) ==
    1 + Cardinality({j \in 1..Len(details) :
                        \/ details[j].size > details[i].size
                        \/ (details[j].size = details[i].size /\ j < i)})

\* C7: the top list is the first ten (or all, if fewer) of the eligible
\* images by size descending, equal sizes in encounter order, and the list
\* of eligible images keeps its encounter order.
C7_TopTenStableAndOnCopy ==
    outcome = "summary" =>
        /\ Len(sorted_migrations) = Min(TopN, Len(migration_details))
        /\ \A i \in 1..Len(migration_details) :
              Rank(migration_details, i) <= TopN =>
                  sorted_migrations[Rank(migration_details, i)] = migration_details[i]
        /\ Len(migration_details) = Len(ListedImages(ScannedSoFar))
        /\ \A i \in 1..Len(migration_details) :
              /\ migration_details[i].tag = TagName(ListedImages(ScannedSoFar)[i])
              /\ migration_details[i].size = ListedImages(ScannedSoFar)[i].imageSizeInBytes

\* More eligible images than the list holds, equal sizes among the ten, and
\* an order by size that differs from the encounter order.
C7_Witness ==
    /\ outcome = "summary"
    /\ Len(migration_details) > TopN
    /\ Len(sorted_migrations) = TopN
    /\ sorted_migrations # SubSeq(migration_details, 1, TopN)
    /\ \E i, j \in 1..TopN :
          i < j /\ sorted_migrations[i].size = sorted_migrations[j].size
    /\ \E i \in 1..TopN : sorted_migrations[i].size # sorted_migrations[1].size

\* C8: the durations are never negative, are all 0 for a total of 0 bytes,
\* and for a positive total satisfy seconds = bytes / (1024 * 1024) / 1.33,
\* minutes = seconds / 60, hours = minutes / 60, days = hours / 24.
C8_EstimateNonNegativeAndExact ==
    outcome = "summary" =>
        /\ time_seconds.num >= 0 /\ time_minutes.num >= 0
        /\ time_hours.num >= 0 /\ time_days.num >= 0
        /\ total_size_bytes = 0 =>
              /\ time_seconds = RatZero /\ time_minutes = RatZero
              /\ time_hours = RatZero /\ time_days = RatZero
        /\ total_size_bytes > 0 =>
              /\ time_seconds.num > 0
              /\ RatTimes(time_seconds, 133) =
                    RatDiv(RatTimes(RatOfInt(total_size_bytes), 100), 20, 1)
        /\ RatTimes(time_minutes, 60) = time_seconds
        /\ RatTimes(time_hours, 60) = time_minutes
        /\ RatTimes(time_days, 24) = time_hours

\* 798 MiB at 1.33 MB/s: 600 seconds, 10 minutes, a sixth of an hour.
C8_Witness ==
    /\ outcome = "summary"
    /\ total_size_bytes = 798 * MiB
    /\ time_seconds = RatOfInt(600)
    /\ time_minutes = RatOfInt(10)
    /\ RatTimes(time_hours, 6) = RatOfInt(1)

\* The accumulators before the first repository.
ZeroAccumulators ==
    [total_size_bytes |-> 0, total_images_to_migrate |-> 0, total_images_to_keep |-> 0,
     repositories_processed |-> 0, repositories_with_migrations |-> 0,
     migration_details |-> <<>>, kept_details |-> <<>>, report |-> <<>>,
     repo_migrate_count |-> 0, repo_keep_count |-> 0, repo_migrate_size |-> 0,
     exc |-> "none"]

\* A whole scan of the repositories in the given order.
RECURSIVE ScanInOrder(_, _)
ScanInOrder(st, repositories) ==
    IF repositories = <<>> THEN st
    ELSE ScanInOrder(ProcessRepo(st, Head(repositories)), Tail(repositories))

GlobalTotals(st) ==
    <<st.total_images_to_migrate, st.total_images_to_keep, st.total_size_bytes,
      st.repositories_processed, st.repositories_with_migrations>>

\* Every order of the repositories of the scan.
Orders(repositories) ==
    {[i \in 1..Len(repositories) |-> repositories[f[i]]] :
        f \in Permutations(1..Len(repositories))}

\* C9: a scan of the same repositories in any other order ends with the same
\* totals: images to migrate, images to keep, bytes to migrate, repositories
\* processed and repositories with migrations.
C9_TotalsOrderIndependent ==
    outcome = "summary" =>
        \A order \in Orders(repositories_to_scan) :
            GlobalTotals(ScanInOrder(ZeroAccumulators, order)) =
                <<total_images_to_migrate, total_images_to_keep, total_size_bytes,
                  repositories_processed, repositories_with_migrations>>

\* A finished scan of two different repositories that both keep images and
\* of which only one has images to migrate.
C9_Witness ==
    /\ outcome = "summary"
    /\ Len(repositories_to_scan) >= 2
    /\ repositories_to_scan[1].pages # repositories_to_scan[2].pages
    /\ total_images_to_keep >= 2
    /\ total_images_to_migrate >= 1
    /\ repositories_with_migrations = 1

\* C10: when the listing of a repository's images fails, the step leaves
\* the totals and both detail lists as they were and advances only
\* repositories_processed, by one.
C10_FailedListingContributesNothing ==
    [][(pc = "scan" /\ next_repo <= Len(repositories_to_scan)
            /\ ListingFails(repositories_to_scan[next_repo]))
        => /\ total_size_bytes' = total_size_bytes
           /\ total_images_to_migrate' = total_images_to_migrate
           /\ total_images_to_keep' = total_images_to_keep
           /\ repositories_with_migrations' = repositories_with_migrations
           /\ migration_details' = migration_details
           /\ kept_details' = kept_details
           /\ repositories_processed' = repositories_processed + 1]_vars

\* A repository whose second page failed after a first page with an image
\* inside the date range, with totals already above zero.
C10_Witness ==
    /\ pc = "scan"
    /\ next_repo > 2
    /\ total_images_to_migrate > 0
    /\ LET repository == repositories_to_scan[next_repo - 1]
       IN /\ repository.failAt = 2
          /\ \E i \in 1..Len(repository.pages[1]) :
                PushedWithinParsed(repository.pages[1][i])
          /\ report[Len(report)].kind = "ERROR failed to process repository"
          /\ report[Len(report)].repo = repository.repositoryName

====
